---- MODULE Spec2Model ----
(***************************************************************************)
(* Model of react-native-simple-version-update.                            *)
(*                                                                         *)
(*   - the hook useVersionUpdate of src/unnamed/part_000 (compareVersions, *)
(*     getLatestStoreVersion, checkForUpdate, handleUpdate, mount effect); *)
(*   - the earlier hook of src/index.ts (same names, different code).      *)
(*                                                                         *)
(* Strings are sequences of one-character strings ("1.2" is <<"1",".",     *)
(* "2">>).  A value that may be null in the code is a sequence of length 0 *)
(* (null) or 1 (the value).                                                *)
(***************************************************************************)
EXTENDS Integers, Sequences, FiniteSets, TLC

VARIABLES
    cmp,            \* one call of compareVersions: its arguments and results
    res,            \* one run of the Android pattern loop: body and result
    platform,       \* Platform.OS
    bundleId,       \* DeviceInfo.getBundleId()
    installed,      \* DeviceInfo.getVersion()
    currentVersion, \* useState, part_000:23
    liveVersion,    \* useState, part_000:24
    needUpdate,     \* useState, part_000:25
    updateUrl,      \* useState, part_000:26
    isLoading,      \* useState, part_000:27
    error,          \* useState, part_000:28
    mounted,        \* the mount effect (part_000:189) has run
    checks,         \* the checkForUpdate invocations, in the order they started
    doneOrder,      \* indexes of checks, in the order they finished
    updates,        \* the handleUpdate invocations, in the order they started
    linking,        \* the calls made to Linking (canOpenURL / openURL)
    console,        \* console.warn / console.error calls
    legacy          \* the hook of src/index.ts: its state and its one check

hookVars == <<platform, bundleId, installed, currentVersion, liveVersion, needUpdate,
              updateUrl, isLoading, error, mounted, checks, doneOrder, updates,
              linking, console>>
vars == <<cmp, res, hookVars, legacy>>

(***************************************************************************)
(* Bounds of the model.                                                    *)
(***************************************************************************)
MaxLen == 3      \* every version string up to this length is an input
MaxFrags == 3    \* fragments a store page body is put together from
MaxChecks == 2   \* checkForUpdate invocations in one run (mount included)
MaxUpdates == 1  \* handleUpdate invocations in one run

(***************************************************************************)
(* Nullable values.                                                        *)
(***************************************************************************)
Null == <<>>
Some(x) == <<x>>
IsNull(o) == o = <<>>
Val(o) == o[1]

Min(S) == CHOOSE x \in S : \A y \in S : x <= y

(***************************************************************************)
(* Characters and strings.                                                 *)
(***************************************************************************)
Digits == {"0", "1", "2", "3", "4", "5", "6", "7", "8", "9"}

\* UTF-16 code unit of a character (the order used by the < and > of strings)
CharCode(c) ==
    CASE c = "-" -> 45
      [] c = "." -> 46
      [] c = "0" -> 48 [] c = "1" -> 49 [] c = "2" -> 50 [] c = "3" -> 51
      [] c = "4" -> 52 [] c = "5" -> 53 [] c = "6" -> 54 [] c = "7" -> 55
      [] c = "8" -> 56 [] c = "9" -> 57
      [] c = "a" -> 97 [] c = "b" -> 98 [] c = "e" -> 101 [] c = "t" -> 116
      [] c = "x" -> 120

DigitVal(c) == CharCode(c) - 48

\* String.prototype.split('.')
RECURSIVE Split(_)
Split(s) ==
    IF \A i \in 1..Len(s) : s[i] # "."
    THEN <<s>>
    ELSE LET k == Min({i \in 1..Len(s) : s[i] = "."})
         IN  <<SubSeq(s, 1, k - 1)>> \o Split(SubSeq(s, k + 1, Len(s)))

IsDigit(c) == c \in Digits

\* part.replace(/[^0-9]/g, '')
StripNonDigits(part) == SelectSeq(part, IsDigit)

\* parseInt(digits, 10) of a non-empty string of decimal digits
RECURSIVE ParseInt(_)
ParseInt(d) ==
    IF Len(d) = 0 THEN 0
    ELSE 10 * ParseInt(SubSeq(d, 1, Len(d) - 1)) + DigitVal(d[Len(d)])

(***************************************************************************)
(* compareVersions of the hook (part_000:36-62).                           *)
(***************************************************************************)
NormalizePart(part) ==
    LET numPart == StripNonDigits(part)
    IN  ParseInt(IF numPart = <<>> THEN <<"0">> ELSE numPart)

MapParts(parts) == [i \in 1..Len(parts) |-> NormalizePart(parts[i])]

\* mutant: the parts are padded but not cut to three
normalizeVersion_NoSlice(version) == MapParts(Split(version)) \o <<0, 0, 0>>

normalizeVersion(version) ==
    SubSeq(MapParts(Split(version)) \o <<0, 0, 0>>, 1, 3)

\* the for loop of lines 52-59, entered at index i (1-based)
RECURSIVE CompareFrom(_, _, _)
CompareFrom(latest, current, i) ==
    IF i > 3 THEN FALSE
    ELSE IF latest[i] > current[i] THEN TRUE
    ELSE IF latest[i] < current[i] THEN FALSE
    ELSE CompareFrom(latest, current, i + 1)

\* mutant: the loop without its "less than" exit
RECURSIVE CompareFrom_NoLess(_, _, _)
CompareFrom_NoLess(latest, current, i) ==
    IF i > 3 THEN FALSE
    ELSE IF latest[i] > current[i] THEN TRUE
    ELSE CompareFrom_NoLess(latest, current, i + 1)

compareVersions_NoLess(latestVersion, currentV) ==
    CompareFrom_NoLess(normalizeVersion(latestVersion), normalizeVersion(currentV), 1)

compareVersions(latestVersion, currentV) ==
    CompareFrom(normalizeVersion(latestVersion), normalizeVersion(currentV), 1)

(***************************************************************************)
(* compareVersions of src/index.ts (lines 67-71): the dots are removed and *)
(* the two strings are compared with >, code unit by code unit.            *)
(***************************************************************************)
IsNotDot(c) == c # "."
RemoveDots(s) == SelectSeq(s, IsNotDot)

\* a > b on strings
RECURSIVE StringGreater(_, _)
StringGreater(a, b) ==
    IF Len(a) = 0 THEN FALSE
    ELSE IF Len(b) = 0 THEN TRUE
    ELSE IF CharCode(a[1]) # CharCode(b[1]) THEN CharCode(a[1]) > CharCode(b[1])
    ELSE StringGreater(Tail(a), Tail(b))

legacyCompareVersions(latestVersion, currentV) ==
    StringGreater(RemoveDots(latestVersion), RemoveDots(currentV))

(***************************************************************************)
(* The Android pattern loop of getLatestStoreVersion (part_000:99-116).    *)
(* A page body is a sequence of tokens: the words and marks the patterns   *)
(* look for are one token each, every other character is a token of its    *)
(* own ("x" stands for any character no pattern looks for).                *)
(***************************************************************************)
DashClass == Digits \cup {".", "-"}   \* [\d.-] and [\d-.]
DotClass == Digits \cup {"."}         \* [\d.]
Whitespace == {" ", "\n"}             \* \s
VersionWords == {"Version", "versionName"}  \* the tokens /version/i matches in

\* last index of the longest run of tokens of cls that starts at p (p - 1: no run)
RunEnd(html, p, cls) ==
    LET stops == {j \in p..Len(html) : html[j] \notin cls}
    IN  IF stops = {} THEN Len(html) ELSE Min(stops) - 1

StartsWith(html, p, lit) ==
    /\ p >= 1
    /\ p + Len(lit) - 1 <= Len(html)
    /\ SubSeq(html, p, p + Len(lit) - 1) = lit

EndSpan == <<"</span", ">">>

\* /Current Version.+?>([\d.-]+)<\/span>/ : the capture, or Null
MatchA(html) ==
    LET lit == <<"Current", " ", "Version">>
        ok(i, g) ==
            /\ StartsWith(html, i, lit)
            /\ g >= i + 4
            /\ \A k \in (i + 3)..(g - 1) : html[k] # "\n"
            /\ html[g] = ">"
            /\ RunEnd(html, g + 1, DashClass) >= g + 1
            /\ StartsWith(html, RunEnd(html, g + 1, DashClass) + 1, EndSpan)
        cands == {c \in (1..Len(html)) \X (1..Len(html)) : ok(c[1], c[2])}
    IN  IF cands = {} THEN Null
        ELSE LET i == Min({c[1] : c \in cands})
                 g == Min({c[2] : c \in {d \in cands : d[1] = i}})
             IN  Some(SubSeq(html, g + 1, RunEnd(html, g + 1, DashClass)))

\* /\[\[\["([\d-.]+?)"\]\]/
MatchB(html) ==
    LET lit == <<"[[[", "\"">>
        ok(i) ==
            /\ StartsWith(html, i, lit)
            /\ RunEnd(html, i + 2, DashClass) >= i + 2
            /\ StartsWith(html, RunEnd(html, i + 2, DashClass) + 1, <<"\"", "]]">>)
        cands == {i \in 1..Len(html) : ok(i)}
    IN  IF cands = {} THEN Null
        ELSE LET i == Min(cands)
             IN  Some(SubSeq(html, i + 2, RunEnd(html, i + 2, DashClass)))

\* /"versionName":"([\d.]+)"/
MatchC(html) ==
    LET lit == <<"\"", "versionName", "\"", ":", "\"">>
        ok(i) ==
            /\ StartsWith(html, i, lit)
            /\ RunEnd(html, i + 5, DotClass) >= i + 5
            /\ StartsWith(html, RunEnd(html, i + 5, DotClass) + 1, <<"\"">>)
        cands == {i \in 1..Len(html) : ok(i)}
    IN  IF cands = {} THEN Null
        ELSE LET i == Min(cands)
             IN  Some(SubSeq(html, i + 5, RunEnd(html, i + 5, DotClass)))

\* /Version[\s\S]*?([\d.]+)/i
MatchD(html) ==
    LET ok(i, j) == html[i] \in VersionWords /\ j > i /\ html[j] \in DotClass
        cands == {c \in (1..Len(html)) \X (1..Len(html)) : ok(c[1], c[2])}
    IN  IF cands = {} THEN Null
        ELSE LET i == Min({c[1] : c \in cands})
                 j == Min({c[2] : c \in {d \in cands : d[1] = i}})
             IN  Some(SubSeq(html, j, RunEnd(html, j, DotClass)))

\* html.match(patterns[k]): match[1], or Null when there is no match
Match(k, html) ==
    CASE k = 1 -> MatchA(html)
      [] k = 2 -> MatchB(html)
      [] k = 3 -> MatchC(html)
      [] k = 4 -> MatchD(html)

NumPatterns == 4

\* String.prototype.trim()
RECURSIVE Trim(_)
Trim(s) ==
    IF s # <<>> /\ s[1] \in Whitespace THEN Trim(Tail(s))
    ELSE IF s # <<>> /\ s[Len(s)] \in Whitespace THEN Trim(SubSeq(s, 1, Len(s) - 1))
    ELSE s

\* mutant: the loop without its break, so that the last matching pattern wins
RECURSIVE PatternLoop_NoBreak(_, _, _)
PatternLoop_NoBreak(html, k, latestVersion) ==
    IF k > NumPatterns THEN latestVersion
    ELSE LET m == Match(k, html)
         IN  IF ~IsNull(m) /\ Val(m) # <<>>
             THEN PatternLoop_NoBreak(html, k + 1, Some(Trim(Val(m))))
             ELSE PatternLoop_NoBreak(html, k + 1, latestVersion)

\* the for loop of lines 110-116, entered at pattern k with latestVersion so far
RECURSIVE PatternLoop(_, _, _)
PatternLoop(html, k, latestVersion) ==
    IF k > NumPatterns THEN latestVersion
    ELSE LET m == Match(k, html)
         IN  IF ~IsNull(m) /\ Val(m) # <<>>
             THEN Some(Trim(Val(m)))
             ELSE PatternLoop(html, k + 1, latestVersion)

AndroidVersion_NoBreak(html) == PatternLoop_NoBreak(html, 1, Null)

\* lines 100-116: latestVersion after the loop
AndroidVersion(html) == PatternLoop(html, 1, Null)

(***************************************************************************)
(* The environment of the hook: device, platform, network.                 *)
(***************************************************************************)
Platforms == {"ios", "android"}
BundleIds == {"com.a", "com.b"}

V_1_9_0 == <<"1", ".", "9", ".", "0">>
V_1_10_0 == <<"1", ".", "1", "0", ".", "0">>
V_1_2 == <<"1", ".", "2">>
V_2_0 == <<"2", ".", "0">>
V_3d1 == <<"3", "-", "1">>

InstalledVersions == {V_1_9_0}

\* URLs: the part before "?" and the query parameters in order
Url(base, query) == [base |-> base, query |-> query]
ItunesLookupUrl(b) == Url("https://itunes.apple.com/lookup", <<<<"bundleId", b>>>>)
PlayBase == "https://play.google.com/store/apps/details"
PlayLookupUrl(b) == Url(PlayBase, <<<<"id", b>>, <<"hl", "en">>, <<"gl", "US">>>>)
\* mutant: the returned URL is the URL of the request
PlayStoreUrl_Lookup(b) == PlayLookupUrl(b)
PlayStoreUrl(b) == Url(PlayBase, <<<<"id", b>>>>)
EmptyUrl == Url("", <<>>)

\* the URL as the string the code builds
RECURSIVE QueryText(_, _)
QueryText(query, i) ==
    IF i > Len(query) THEN ""
    ELSE (IF i = 1 THEN "?" ELSE "&") \o query[i][1] \o "=" \o query[i][2]
         \o QueryText(query, i + 1)
UrlText(u) == u.base \o QueryText(u.query, 1)
TrackUrl == Url("https://apps.apple.com/app/id1", <<>>)

\* thrown and rejected values: an Error with its message, or something else
ErrorOf(message) == [isError |-> TRUE, message |-> message]
NotAnError == [isError |-> FALSE, message |-> ""]
Rejections == {ErrorOf("Network request failed"), NotAnError}

\* Response objects: ok and statusText
Responses == {[ok |-> TRUE, statusText |-> "OK"],
              [ok |-> FALSE, statusText |-> "Service Unavailable"]}

\* decoded iTunes payloads: JSON null, or an object whose fields may be missing
AppInfo(version, trackViewUrl) == [version |-> version, trackViewUrl |-> trackViewUrl]
Payload(resultCount, results) == Some([resultCount |-> resultCount, results |-> results])
IosPayloads ==
    {Null,
     Payload(Some(0), Some(<<>>)),
     Payload(Some(0), Some(<<AppInfo(Some(V_1_10_0), Some(TrackUrl))>>)),
     Payload(Some(1), Some(<<>>)),
     Payload(Some(1), Some(<<AppInfo(Some(V_1_10_0), Some(TrackUrl))>>)),
     Payload(Some(1), Some(<<AppInfo(Some(V_1_2), Some(TrackUrl))>>)),
     Payload(Some(1), Some(<<AppInfo(Some(V_1_10_0), Null)>>)),
     Payload(Some(1), Some(<<AppInfo(Null, Some(EmptyUrl))>>))}

\* pieces of a Play Store page
FragA(v) == <<"<div", ">", "Current", " ", "Version", "</div", ">", "<span", ">">>
            \o v \o EndSpan
FragB(v) == <<"[[[", "\"">> \o v \o <<"\"", "]]">>
FragC(v) == <<"\"", "versionName", "\"", ":", "\"">> \o v \o <<"\"">>
FragD(v) == <<"Version", " ">> \o v

HookBodies ==
    {<<"x">>,
     FragA(V_1_10_0),
     FragA(V_1_2) \o FragC(V_1_10_0),
     <<"x">> \o FragB(V_3d1)}

(***************************************************************************)
(* getLatestStoreVersion (part_000:67-129).  Its outcome is the value it   *)
(* resolves with, or the Error of line 127 it rejects with.                *)
(***************************************************************************)
Returned(version, url) ==
    [thrown |-> FALSE, version |-> version, url |-> url, error |-> NotAnError]

\* mutant: the catch logs and returns no version, as in src/index.ts
Rethrown_Swallow(e) == Returned(Null, Null)

\* the catch of lines 125-128, for the thrown value e
Rethrown(e) ==
    [thrown |-> TRUE, version |-> Null, url |-> Null,
     error |-> ErrorOf("Error fetching the latest version: "
                       \o (IF e.isError THEN e.message ELSE "Unknown error"))]

\* x || null for a string or URL that may be missing
StringOrNull(o) == IF IsNull(o) \/ Val(o) = <<>> THEN Null ELSE o
UrlOrNull(o) == IF IsNull(o) \/ Val(o) = EmptyUrl THEN Null ELSE o

LookupRequest(os, b) == IF os = "ios" THEN ItunesLookupUrl(b) ELSE PlayLookupUrl(b)

\* lines 77-79 and 95-97
StatusError(os, response) ==
    ErrorOf((IF os = "ios" THEN "Failed to fetch iOS app info: "
             ELSE "Failed to fetch Android app info: ") \o response.statusText)

\* mutant: a payload with no result is thrown as an error
IosResult_Strict(data) ==
    IF IsNull(data)
    THEN Rethrown(ErrorOf("Cannot read property 'resultCount' of null"))
    ELSE LET d == Val(data)
         IN  IF /\ ~IsNull(d.resultCount)
                /\ Val(d.resultCount) > 0
                /\ ~IsNull(d.results)
                /\ Len(Val(d.results)) > 0
             THEN LET appInfo == Val(d.results)[1]
                  IN  Returned(StringOrNull(appInfo.version),
                               UrlOrNull(appInfo.trackViewUrl))
             ELSE Rethrown(ErrorOf("App not found"))

\* lines 81-88 and 124, for the decoded payload
IosResult(data) ==
    IF IsNull(data)
    THEN Rethrown(ErrorOf("Cannot read property 'resultCount' of null"))
    ELSE LET d == Val(data)
         IN  IF /\ ~IsNull(d.resultCount)
                /\ Val(d.resultCount) > 0
                /\ ~IsNull(d.results)
                /\ Len(Val(d.results)) > 0
             THEN LET appInfo == Val(d.results)[1]
                  IN  Returned(StringOrNull(appInfo.version),
                               UrlOrNull(appInfo.trackViewUrl))
             ELSE Returned(Null, Null)

\* lines 99-121, for the page body
AndroidResult(html, b) == Returned(AndroidVersion(html), Some(PlayStoreUrl(b)))

(***************************************************************************)
(* The hook of part_000: checkForUpdate (lines 134-164).                   *)
(***************************************************************************)
envVars == <<platform, bundleId, installed>>

Truthy(o) == ~IsNull(o) /\ Val(o) # <<>>

\* err instanceof Error ? err : new Error(fallback)
AsError(e, fallback) == IF e.isError THEN e ELSE ErrorOf(fallback)

Log(level, text) == [level |-> level, text |-> text]

\* lines 135-142, up to the fetch of getLatestStoreVersion
StartCheck ==
    /\ Len(checks) < MaxChecks
    /\ isLoading' = TRUE
    /\ error' = Null
    /\ currentVersion' = Some(installed)
    /\ checks' = Append(checks, [pc |-> "awaitFetch",
                                 appVersion |-> installed,
                                 request |-> LookupRequest(platform, bundleId),
                                 response |-> Null,
                                 body |-> Null,
                                 lookup |-> Null])
    /\ UNCHANGED <<liveVersion, needUpdate, updateUrl, doneOrder, updates, linking,
                   console, envVars>>

\* lines 189-191: the effect that runs once the hook is mounted
Mount ==
    /\ ~mounted
    /\ mounted' = TRUE
    /\ StartCheck

\* the caller calls checkForUpdate
ManualCheck ==
    /\ mounted
    /\ UNCHANGED mounted
    /\ StartCheck

\* mutant: any version found in the store counts as an update
ApplyFound_Always(latestVersion, url, appVersion) ==
    /\ liveVersion' = latestVersion
    /\ updateUrl' = url
    /\ needUpdate' = TRUE
    /\ UNCHANGED <<error, console>>

\* lines 144-152
ApplyFound(latestVersion, url, appVersion) ==
    /\ liveVersion' = latestVersion
    /\ updateUrl' = url
    /\ needUpdate' = compareVersions(Val(latestVersion), appVersion)
    /\ UNCHANGED <<error, console>>

\* mutant: a lookup that finds no version leaves the earlier result in place
ApplyNotFound_Keep ==
    /\ UNCHANGED <<liveVersion, needUpdate, updateUrl, error, console>>

\* lines 153-156
ApplyNotFound ==
    /\ liveVersion' = Null
    /\ needUpdate' = FALSE
    /\ UNCHANGED <<updateUrl, error, console>>

\* mutant: the catch block also resets the version state
ApplyThrown_Clear(err) ==
    /\ error' = Some(AsError(err, "Unknown error occurred"))
    /\ console' = console \cup {Log("error", "Error checking for update:")}
    /\ liveVersion' = Null
    /\ needUpdate' = FALSE
    /\ UNCHANGED updateUrl

\* lines 157-160
ApplyThrown(err) ==
    /\ error' = Some(AsError(err, "Unknown error occurred"))
    /\ console' = console \cup {Log("error", "Error checking for update:")}
    /\ UNCHANGED <<liveVersion, needUpdate, updateUrl>>

\* mutant: setIsLoading(false) at the end of the try block instead of in a finally
FinishCheck_NoFinally(i, response, body, outcome) ==
    /\ IF outcome.thrown THEN ApplyThrown(outcome.error)
       ELSE IF Truthy(outcome.version)
            THEN ApplyFound(outcome.version, outcome.url, checks[i].appVersion)
            ELSE ApplyNotFound
    /\ isLoading' = IF outcome.thrown THEN isLoading ELSE FALSE
    /\ checks' = [checks EXCEPT ![i] = [@ EXCEPT !.pc = "done",
                                                 !.response = response,
                                                 !.body = body,
                                                 !.lookup = Some(outcome)]]
    /\ doneOrder' = Append(doneOrder, i)
    /\ UNCHANGED <<currentVersion, mounted, updates, linking, envVars>>

\* lines 142-163 once getLatestStoreVersion has settled with outcome
FinishCheck(i, response, body, outcome) ==
    /\ IF outcome.thrown THEN ApplyThrown(outcome.error)
       ELSE IF Truthy(outcome.version)
            THEN ApplyFound(outcome.version, outcome.url, checks[i].appVersion)
            ELSE ApplyNotFound
    /\ isLoading' = FALSE
    /\ checks' = [checks EXCEPT ![i] = [@ EXCEPT !.pc = "done",
                                                 !.response = response,
                                                 !.body = body,
                                                 !.lookup = Some(outcome)]]
    /\ doneOrder' = Append(doneOrder, i)
    /\ UNCHANGED <<currentVersion, mounted, updates, linking, envVars>>

\* the fetch of line 75 or 91 rejects
FetchRejects(i, e) ==
    /\ checks[i].pc = "awaitFetch"
    /\ FinishCheck(i, Null, Null, Rethrown(e))

\* the fetch resolves with a Response: lines 77-79, 95-97
FetchResolves(i, r) ==
    /\ checks[i].pc = "awaitFetch"
    /\ IF ~r.ok
       THEN FinishCheck(i, Some(r), Null, Rethrown(StatusError(platform, r)))
       ELSE /\ checks' = [checks EXCEPT ![i] = [@ EXCEPT !.pc = "awaitBody",
                                                         !.response = Some(r)]]
            /\ UNCHANGED <<currentVersion, liveVersion, needUpdate, updateUrl,
                           isLoading, error, mounted, doneOrder, updates, linking,
                           console, envVars>>

\* response.json() or response.text() rejects
BodyRejects(i, e) ==
    /\ checks[i].pc = "awaitBody"
    /\ FinishCheck(i, checks[i].response, Null, Rethrown(e))

\* response.json() resolves with the decoded payload: lines 81-88, 124
JsonResolves(i, data) ==
    /\ checks[i].pc = "awaitBody"
    /\ platform = "ios"
    /\ FinishCheck(i, checks[i].response, Some(data), IosResult(data))

\* response.text() resolves with the page: lines 99-121
TextResolves(i, html) ==
    /\ checks[i].pc = "awaitBody"
    /\ platform # "ios"
    /\ FinishCheck(i, checks[i].response, Some(html), AndroidResult(html, bundleId))

(***************************************************************************)
(* The hook of part_000: handleUpdate (lines 169-187).                     *)
(***************************************************************************)
checkVars == <<currentVersion, liveVersion, needUpdate, updateUrl, isLoading,
               mounted, checks, doneOrder, envVars>>

Call(fn, url) == [fn |-> fn, url |-> url]

\* mutant: a failure to open the URL also drops the update that was found
FailUpdate_Reset(u, canOpen, e) ==
    /\ error' = Some(AsError(e, "Failed to open update URL"))
    /\ console' = console \cup {Log("error", "Error opening update URL:")}
    /\ updates' = [updates EXCEPT ![u] = [@ EXCEPT !.pc = "failed",
                                                   !.canOpen = canOpen]]
    /\ needUpdate' = FALSE
    /\ UNCHANGED <<currentVersion, liveVersion, updateUrl, isLoading,
                   mounted, checks, doneOrder, envVars, linking>>

\* lines 182-186, for the thrown value e; canOpen is the const of line 176 by then
FailUpdate(u, canOpen, e) ==
    /\ error' = Some(AsError(e, "Failed to open update URL"))
    /\ console' = console \cup {Log("error", "Error opening update URL:")}
    /\ updates' = [updates EXCEPT ![u] = [@ EXCEPT !.pc = "failed",
                                                   !.canOpen = canOpen]]
    /\ UNCHANGED <<checkVars, linking>>

\* the caller calls handleUpdate: lines 170-176
StartUpdate ==
    /\ mounted
    /\ Len(updates) < MaxUpdates
    /\ IF IsNull(updateUrl) \/ Val(updateUrl) = EmptyUrl
       THEN /\ console' = console \cup {Log("warn", "No update URL available")}
            /\ updates' = Append(updates, [pc |-> "noUrl", url |-> updateUrl,
                                              canOpen |-> Null])
            /\ UNCHANGED linking
       ELSE /\ linking' = Append(linking, Call("canOpenURL", Val(updateUrl)))
            /\ updates' = Append(updates, [pc |-> "awaitCanOpen", url |-> updateUrl,
                                              canOpen |-> Null])
            /\ UNCHANGED console
    /\ UNCHANGED <<checkVars, error>>

\* mutant: the URL is opened whatever canOpenURL answered
CanOpenResolves_Ignore(u, canOpen) ==
    /\ updates[u].pc = "awaitCanOpen"
    /\ linking' = Append(linking, Call("openURL", Val(updates[u].url)))
    /\ updates' = [updates EXCEPT ![u] = [@ EXCEPT !.pc = "awaitOpen",
                                                   !.canOpen = Some(canOpen)]]
    /\ UNCHANGED <<checkVars, error, console>>

\* Linking.canOpenURL resolves: lines 177-181
CanOpenResolves(u, canOpen) ==
    /\ updates[u].pc = "awaitCanOpen"
    /\ IF canOpen
       THEN /\ linking' = Append(linking, Call("openURL", Val(updates[u].url)))
            /\ updates' = [updates EXCEPT ![u] = [@ EXCEPT !.pc = "awaitOpen",
                                                           !.canOpen = Some(canOpen)]]
            /\ UNCHANGED <<checkVars, error, console>>
       ELSE FailUpdate(u, Some(canOpen),
                       ErrorOf("Cannot open URL: " \o UrlText(Val(updates[u].url))))

\* Linking.canOpenURL rejects
CanOpenRejects(u, e) ==
    /\ updates[u].pc = "awaitCanOpen"
    /\ FailUpdate(u, Null, e)

\* Linking.openURL resolves
OpenResolves(u) ==
    /\ updates[u].pc = "awaitOpen"
    /\ updates' = [updates EXCEPT ![u] = [@ EXCEPT !.pc = "done"]]
    /\ UNCHANGED <<checkVars, error, console, linking>>

\* Linking.openURL rejects
OpenRejects(u, e) ==
    /\ updates[u].pc = "awaitOpen"
    /\ FailUpdate(u, updates[u].canOpen, e)

(***************************************************************************)
(* The hook of src/index.ts: one check, started by the mount effect.       *)
(***************************************************************************)
At(html, p, token) == p \in 1..Len(html) /\ html[p] = token
SkipWs(html, p) == RunEnd(html, p, Whitespace) + 1
\* index of the first ">" at or after p (0: none)
NextGt(html, p) ==
    LET gts == {j \in p..Len(html) : html[j] = ">"}
    IN  IF gts = {} THEN 0 ELSE Min(gts)

\* the regex of index.ts:49-50 tried at index i: the capture, or Null
LegacyMatchAt(html, i) ==
    LET g1 == NextGt(html, i + 1)
        p2 == SkipWs(html, g1 + 1)
        p4 == SkipWs(html, p2 + 1)
        p5 == SkipWs(html, p4 + 1)
        p6 == SkipWs(html, p5 + 2)
        g2 == NextGt(html, p6 + 1)
        p7 == SkipWs(html, g2 + 1)
        e == RunEnd(html, p7, DotClass)
        p8 == SkipWs(html, e + 1)
    IN  IF /\ At(html, i, "<div")
           /\ g1 > 0
           /\ At(html, p2, "Current")
           /\ p4 > p2 + 1
           /\ At(html, p4, "Version")
           /\ StartsWith(html, p5, <<"</div", ">">>)
           /\ At(html, p6, "<span")
           /\ g2 > 0
           /\ e >= p7
           /\ StartsWith(html, p8, EndSpan)
        THEN Some(SubSeq(html, p7, e))
        ELSE Null

\* regex.exec(html): match[1] of the leftmost match, or Null
LegacyMatch(html) ==
    LET cands == {i \in 1..Len(html) : ~IsNull(LegacyMatchAt(html, i))}
    IN  IF cands = {} THEN Null ELSE LegacyMatchAt(html, Min(cands))

\* what getLatestStoreVersion of index.ts did: the value it resolved with, whether
\* its catch ran (lines 61-64), and the setUpdateUrl it made on the way
LegacyOutcome(caught, version, setUrl, url) ==
    [thrown |-> FALSE, caught |-> caught, version |-> version,
     setUrl |-> setUrl, url |-> url]

LegacyCaught == LegacyOutcome(TRUE, Null, FALSE, Null)

\* index.ts:39-43 and 60-64, for the decoded payload
LegacyIosResult(data) ==
    IF IsNull(data) THEN LegacyCaught
    ELSE LET d == Val(data)
         IN  IF ~IsNull(d.resultCount) /\ Val(d.resultCount) > 0
             THEN IF IsNull(d.results) THEN LegacyCaught
                  ELSE IF Len(Val(d.results)) = 0
                       THEN LegacyOutcome(TRUE, Null, TRUE, Null)
                       ELSE LET appInfo == Val(d.results)[1]
                            IN  LegacyOutcome(FALSE, appInfo.version, TRUE,
                                              appInfo.trackViewUrl)
             ELSE LegacyOutcome(FALSE, Null, FALSE, Null)

\* index.ts:48-60, for the page body
LegacyAndroidResult(html, b) ==
    LET match == LegacyMatch(html)
    IN  IF Truthy(match)
        THEN LegacyOutcome(FALSE, match, TRUE, Some(PlayStoreUrl(b)))
        ELSE LegacyOutcome(FALSE, Null, FALSE, Null)

\* index.ts:17-25 once getLatestStoreVersion has settled
LegacyFinish(transport, outcome) ==
    /\ legacy.pc \in {"awaitFetch", "awaitBody"}
    /\ legacy' = [legacy EXCEPT
          !.pc = "done",
          !.transport = transport,
          !.lookup = Some(outcome),
          !.updateUrl = IF outcome.setUrl THEN outcome.url ELSE @,
          !.liveVersion = outcome.version,
          !.needUpdate = IF /\ Truthy(outcome.version)
                            /\ legacyCompareVersions(Val(outcome.version), installed)
                         THEN TRUE ELSE @,
          !.console = IF outcome.caught
                      THEN @ \cup {Log("error", "Error fetching the latest version:")}
                      ELSE @]
    /\ UNCHANGED envVars

\* index.ts:11-14, 28-29, 33-36, 45-46: the effect, up to the fetch
LegacyMount ==
    /\ legacy.pc = "init"
    /\ legacy' = [legacy EXCEPT !.pc = "awaitFetch", !.currentVersion = Some(installed)]
    /\ UNCHANGED envVars

\* the fetch rejects
LegacyFetchRejects(e) ==
    /\ legacy.pc = "awaitFetch"
    /\ LegacyFinish("failed", LegacyCaught)

\* the fetch resolves; the status of the Response is not looked at
LegacyFetchResolves(r) ==
    /\ legacy.pc = "awaitFetch"
    /\ legacy' = [legacy EXCEPT !.pc = "awaitBody", !.response = Some(r)]
    /\ UNCHANGED envVars

\* response.json() or response.text() rejects
LegacyBodyRejects(e) ==
    /\ legacy.pc = "awaitBody"
    /\ LegacyFinish("failed", LegacyCaught)

LegacyJsonResolves(data) ==
    /\ legacy.pc = "awaitBody"
    /\ platform = "ios"
    /\ LegacyFinish("ok", LegacyIosResult(data))

LegacyTextResolves(html) ==
    /\ legacy.pc = "awaitBody"
    /\ platform # "ios"
    /\ LegacyFinish("ok", LegacyAndroidResult(html, bundleId))

\* index.ts:73-77
LegacyHandleUpdate ==
    /\ legacy.pc # "init"
    /\ Len(legacy.opened) < MaxUpdates
    /\ legacy' = [legacy EXCEPT
          !.opened = IF IsNull(legacy.updateUrl) \/ Val(legacy.updateUrl) = EmptyUrl
                     THEN Append(@, Null)
                     ELSE Append(@, legacy.updateUrl)]
    /\ UNCHANGED envVars

(***************************************************************************)
(* Inputs of the pure functions.                                           *)
(***************************************************************************)
CmpAlphabet == {"0", "1", ".", "x"}
StringsUpTo(n) == UNION {[1..k -> CmpAlphabet] : k \in 0..n}

ExampleVersions ==
    {V_1_10_0, V_1_9_0, V_2_0,
     <<"1", ".", "9", ".", "9">>,
     <<"1", ".", "2", ".", "3">>,
     <<"1", ".", "2", ".", "2">>,
     <<"1", ".", "2", ".", "3", "-", "b", "e", "t", "a">>,
     <<"1", ".", "x", ".", "0">>,
     <<"1", ".", "2", ".", "3", ".", "4">>,
     <<"0", ".", "0", ".", "5">>}

VersionInputs == StringsUpTo(MaxLen) \cup ExampleVersions

Fragments ==
    {FragA(V_1_2), FragA(V_3d1),
     FragB(V_2_0), FragB(V_3d1),
     FragC(V_1_10_0), FragC(V_3d1),
     FragD(V_2_0),
     <<"Current", " ", "Version", "\n", ">">> \o V_1_9_0 \o EndSpan,
     <<"Current", " ", "Version">>,
     <<"\n">>, <<"x">>, <<">">>, <<"9">>, EndSpan}

RECURSIVE Flatten(_)
Flatten(fs) == IF fs = <<>> THEN <<>> ELSE Head(fs) \o Flatten(Tail(fs))

Bodies == {Flatten(fs) : fs \in UNION {[1..k -> Fragments] : k \in 0..MaxFrags}}

(***************************************************************************)
(* Initial states.                                                         *)
(***************************************************************************)
CmpIdle == [latest |-> <<>>, current |-> <<>>, latestN |-> Null, currentN |-> Null,
            result |-> Null, legacyResult |-> Null]
ResIdle == [html |-> <<>>, out |-> Null]
LegacyInit ==
    legacy = [pc |-> "init", transport |-> "pending", response |-> Null,
              lookup |-> Null, currentVersion |-> Null, liveVersion |-> Null,
              needUpdate |-> FALSE, updateUrl |-> Null, console |-> {},
              opened |-> <<>>]

\* the state of the hook after its first render (part_000:23-28)
HookState ==
    /\ currentVersion = Null
    /\ liveVersion = Null
    /\ needUpdate = FALSE
    /\ updateUrl = Null
    /\ isLoading = TRUE
    /\ error = Null
    /\ mounted = FALSE
    /\ checks = <<>>
    /\ doneOrder = <<>>
    /\ updates = <<>>
    /\ linking = <<>>
    /\ console = {}

\* the app identifier only shows in the lookup request, except on Android, where
\* the returned URL is built from it
EnvAny ==
    /\ platform \in Platforms
    /\ bundleId \in IF platform = "ios" THEN {"com.a"} ELSE BundleIds
    /\ installed \in InstalledVersions

EnvFixed ==
    /\ platform = "android"
    /\ bundleId \in BundleIds
    /\ installed = V_1_9_0

(***************************************************************************)
(* Spec: the hook of part_000.                                             *)
(***************************************************************************)
Init ==
    /\ cmp = CmpIdle
    /\ res = ResIdle
    /\ LegacyInit
    /\ EnvAny
    /\ HookState

CheckIds == 1..Len(checks)
UpdateIds == 1..Len(updates)
\* what response.json() / response.text() reject with
BodyRejections ==
    IF platform = "ios" THEN {ErrorOf("JSON Parse error: Unexpected token")}
    ELSE {ErrorOf("Network request failed")}

HookNext ==
    \/ Mount
    \/ ManualCheck
    \/ \E i \in CheckIds, e \in Rejections : FetchRejects(i, e)
    \/ \E i \in CheckIds, r \in Responses : FetchResolves(i, r)
    \/ \E i \in CheckIds, e \in BodyRejections : BodyRejects(i, e)
    \/ \E i \in CheckIds, data \in IosPayloads : JsonResolves(i, data)
    \/ \E i \in CheckIds, html \in HookBodies : TextResolves(i, html)
    \/ StartUpdate
    \/ \E u \in UpdateIds, canOpen \in BOOLEAN : CanOpenResolves(u, canOpen)
    \/ \E u \in UpdateIds, e \in Rejections : CanOpenRejects(u, e)
    \/ \E u \in UpdateIds : OpenResolves(u)
    \/ \E u \in UpdateIds, e \in Rejections : OpenRejects(u, e)

Next == HookNext /\ UNCHANGED <<cmp, res, legacy>>

Spec == Init /\ [][Next]_vars

(***************************************************************************)
(* SpecLegacy: the hook of src/index.ts.                                   *)
(***************************************************************************)
InitLegacy ==
    /\ cmp = CmpIdle
    /\ res = ResIdle
    /\ LegacyInit
    /\ EnvAny
    /\ HookState

hookState == <<currentVersion, liveVersion, needUpdate, updateUrl, isLoading, error,
               mounted, checks, doneOrder, updates, linking, console>>

LegacyNext ==
    \/ LegacyMount
    \/ \E e \in Rejections : LegacyFetchRejects(e)
    \/ \E r \in Responses : LegacyFetchResolves(r)
    \/ \E e \in BodyRejections : LegacyBodyRejects(e)
    \/ \E data \in IosPayloads : LegacyJsonResolves(data)
    \/ \E html \in HookBodies : LegacyTextResolves(html)
    \/ LegacyHandleUpdate

NextLegacy == LegacyNext /\ UNCHANGED <<cmp, res, hookState>>

SpecLegacy == InitLegacy /\ [][NextLegacy]_vars

(***************************************************************************)
(* SpecCompare: one call of each compareVersions on a pair of strings.     *)
(***************************************************************************)
InitCompare ==
    /\ cmp \in {[CmpIdle EXCEPT !.latest = l, !.current = c] :
                    l \in VersionInputs, c \in VersionInputs}
    /\ res = ResIdle
    /\ LegacyInit
    /\ EnvFixed
    /\ bundleId = "com.a"
    /\ HookState

\* compareVersions(latest, current) of part_000:36-62
CompareCall ==
    /\ IsNull(cmp.result)
    /\ cmp' = [cmp EXCEPT !.latestN = Some(normalizeVersion(cmp.latest)),
                          !.currentN = Some(normalizeVersion(cmp.current)),
                          !.result = Some(compareVersions(cmp.latest, cmp.current))]

\* compareVersions(latest, current) of index.ts:67-71
LegacyCompareCall ==
    /\ IsNull(cmp.legacyResult)
    /\ cmp' = [cmp EXCEPT
          !.legacyResult = Some(legacyCompareVersions(cmp.latest, cmp.current))]

NextCompare ==
    /\ CompareCall \/ LegacyCompareCall
    /\ UNCHANGED <<res, legacy, hookVars>>

SpecCompare == InitCompare /\ [][NextCompare]_vars

(***************************************************************************)
(* SpecResolve: the Android branch of getLatestStoreVersion on one body.   *)
(***************************************************************************)
InitResolve ==
    /\ cmp = CmpIdle
    /\ res \in {[ResIdle EXCEPT !.html = h] : h \in Bodies}
    /\ LegacyInit
    /\ EnvFixed
    /\ HookState

\* lines 99-121 on the body res.html
ResolveCall ==
    /\ IsNull(res.out)
    /\ res' = [res EXCEPT !.out = Some(AndroidResult(res.html, bundleId))]

NextResolve == ResolveCall /\ UNCHANGED <<cmp, legacy, hookVars>>

SpecResolve == InitResolve /\ [][NextResolve]_vars

(***************************************************************************)
(* Properties.                                                             *)
(***************************************************************************)
\* index i of checks finishes in this step
Finishes(i) == checks[i].pc # "done" /\ checks'[i].pc = "done"

\* the lookup of a finished check met a transport failure: the fetch was rejected,
\* the status was not 2xx, or the body could not be read or decoded
TransportFailed(c) ==
    \/ IsNull(c.response)
    \/ ~Val(c.response).ok
    \/ IsNull(c.body)

\* C1: compareVersions of part_000 returns what the reference rule returns: on the
\* two normalized 3-tuples, latest[i] > current[i] at the first index i where they
\* differ, and false when they are equal.
C1_CompareMatchesReference ==
    ~IsNull(cmp.result) =>
        LET l == Val(cmp.latestN)
            c == Val(cmp.currentN)
            differ == {i \in 1..3 : l[i] # c[i]}
        IN  Val(cmp.result) = (IF differ = {} THEN FALSE
                               ELSE l[Min(differ)] > c[Min(differ)])

\* C1 witness: a call decided by the third component
C1_Witness ==
    /\ cmp.result = Some(TRUE)
    /\ Val(cmp.latestN)[1] = Val(cmp.currentN)[1]
    /\ Val(cmp.latestN)[2] = Val(cmp.currentN)[2]

\* the integer a dot-separated component stands for: its digits, 0 without digits
ComponentValue(parts, i) ==
    IF i > Len(parts) \/ \A k \in 1..Len(parts[i]) : parts[i][k] \notin Digits
    THEN 0
    ELSE ParseInt(SelectSeq(parts[i], IsDigit))

NormalizedAsSpecified(version, n) ==
    /\ Len(n) = 3
    /\ \A i \in 1..Len(n) : n[i] \in Nat
    /\ \A i \in 1..3 : n[i] = ComponentValue(Split(version), i)

\* C2: for every version string normalizeVersion yields exactly 3 integers >= 0 (a
\* component without digits and a missing component are 0, components after the
\* third are dropped), and compareVersions returns a boolean.
C2_NormalizedShape ==
    ~IsNull(cmp.result) =>
        /\ NormalizedAsSpecified(cmp.latest, Val(cmp.latestN))
        /\ NormalizedAsSpecified(cmp.current, Val(cmp.currentN))
        /\ Val(cmp.result) \in BOOLEAN

\* C2 witness: the empty string compared with a string of four components
C2_Witness ==
    /\ ~IsNull(cmp.result)
    /\ cmp.latest = <<>>
    /\ cmp.latestN = Some(<<0, 0, 0>>)
    /\ cmp.current = <<"1", ".", "2", ".", "3", ".", "4">>
    /\ cmp.currentN = Some(<<1, 2, 3>>)

\* C3: compareVersions of src/index.ts compares numerically per component: for
\* latest "1.10.0" and current "1.9.0" it returns true.
C3_LegacyCompareNumeric ==
    (cmp.latest = V_1_10_0 /\ cmp.current = V_1_9_0 /\ ~IsNull(cmp.legacyResult))
        => Val(cmp.legacyResult) = TRUE

\* the patterns that match html, by their index in the list
Matching(html) == {k \in 1..NumPatterns : Truthy(Match(k, html))}

\* C4: the Android branch returns the capture of the first pattern of the list
\* (a), (b), (c), (d) that matches the body; a body that matches (a) and (c) with
\* different values yields the value of (a).
C4_FirstPatternWins ==
    ~IsNull(res.out) =>
        LET version == Val(res.out).version
            M == Matching(res.html)
        IN  /\ version = IF M = {} THEN Null
                         ELSE Some(Trim(Val(Match(Min(M), res.html))))
            /\ {1, 3} \subseteq M => version = MatchA(res.html)

\* C4 witness: a body that matches (a) and (c) with different values
C4_Witness ==
    /\ ~IsNull(res.out)
    /\ {1, 3} \subseteq Matching(res.html)
    /\ MatchA(res.html) # MatchC(res.html)
    /\ Val(res.out).version = MatchA(res.html)

\* C5: a check whose lookup meets a transport failure (request rejected, status not
\* 2xx, body not decodable) has getLatestStoreVersion fail with an error, and when
\* the check finishes the error of the hook is that error, not null.
C5_TransportFailureSetsError ==
    [][\A i \in CheckIds :
          (Finishes(i) /\ TransportFailed(checks'[i])) =>
              /\ Val(checks'[i].lookup).thrown
              /\ error' = Some(Val(checks'[i].lookup).error)
              /\ ~IsNull(error')]_vars

\* C5 witness: a check finished on a response that is not 2xx, with error set
C5_Witness ==
    \E i \in CheckIds :
        /\ checks[i].pc = "done"
        /\ ~IsNull(checks[i].response)
        /\ ~Val(checks[i].response).ok
        /\ ~IsNull(error)

\* C6: in the hook of src/index.ts a transport failure of the lookup is propagated
\* to the caller: it does not end like a store that has no record of the app
\* (liveVersion null, needUpdate false, nothing thrown).
C6_LegacyFailurePropagated ==
    (legacy.pc = "done" /\ legacy.transport = "failed") =>
        \/ Val(legacy.lookup).thrown
        \/ ~(IsNull(legacy.liveVersion) /\ legacy.needUpdate = FALSE)

\* the decoded payload of a finished check is an object with resultCount = 0
NoResults(c) ==
    /\ c.pc = "done"
    /\ ~IsNull(c.body)
    /\ ~IsNull(Val(c.body))
    /\ Val(Val(c.body)).resultCount = Some(0)

\* C7: on iOS a response with success status and resultCount = 0 yields version
\* null and url null, and no error.
C7_IosNoResultsIsAbsent ==
    \A i \in CheckIds :
        (platform = "ios" /\ NoResults(checks[i])) =>
            /\ ~Val(checks[i].lookup).thrown
            /\ IsNull(Val(checks[i].lookup).version)
            /\ IsNull(Val(checks[i].lookup).url)

\* C7 witness: a finished iOS check with resultCount = 0 and a success status
C7_Witness ==
    \E i \in CheckIds :
        /\ platform = "ios"
        /\ NoResults(checks[i])
        /\ Val(checks[i].response).ok
        /\ IsNull(error)

\* the lookup of a finished check succeeded and found no version
FoundNothing(c) ==
    /\ c.pc = "done"
    /\ ~Val(c.lookup).thrown
    /\ ~Truthy(Val(c.lookup).version)

\* C8: a check whose lookup succeeds without a version sets needUpdate to false and
\* liveVersion to null and does not set error, whatever an earlier check had set.
C8_NotFoundClearsResult ==
    [][\A i \in CheckIds :
          (Finishes(i) /\ FoundNothing(checks'[i])) =>
              /\ needUpdate' = FALSE
              /\ liveVersion' = Null
              /\ error' = error]_vars

\* C8 witness: a check that found an update finished first, a check that found
\* nothing finished after it
C8_Witness ==
    /\ Len(doneOrder) = 2
    /\ ~Val(checks[doneOrder[1]].lookup).thrown
    /\ Val(checks[doneOrder[1]].lookup).version = Some(V_1_10_0)
    /\ FoundNothing(checks[doneOrder[2]])
    /\ needUpdate = FALSE
    /\ IsNull(liveVersion)

\* a finished check whose lookup returned a value
ReturnedValue(c) == c.pc = "done" /\ ~Val(c.lookup).thrown

\* C9: on Android, whenever the response has success status, the URL returned is
\* https://play.google.com/store/apps/details?id=<bundleId>, whether or not a
\* pattern matched, without the hl and gl parameters of the request.
C9_AndroidCanonicalUrl ==
    \A i \in CheckIds :
        (platform = "android" /\ ReturnedValue(checks[i])) =>
            LET url == Val(checks[i].lookup).url
            IN  /\ Val(checks[i].response).ok
                /\ url = Some(Url(PlayBase, <<<<"id", bundleId>>>>))
                /\ \A k \in 1..Len(Val(url).query) :
                       Val(url).query[k][1] \notin {"hl", "gl"}
                /\ \E k \in 1..Len(checks[i].request.query) :
                       checks[i].request.query[k][1] = "hl"

\* C9 witness: one check returned a version, another returned none
C9_Witness ==
    /\ platform = "android"
    /\ \E i \in CheckIds, j \in CheckIds :
          /\ ReturnedValue(checks[i]) /\ Truthy(Val(checks[i].lookup).version)
          /\ ReturnedValue(checks[j]) /\ IsNull(Val(checks[j].lookup).version)
          /\ Val(checks[i].lookup).url = Val(checks[j].lookup).url

\* C10: a handleUpdate call that fails to open the URL changes only error:
\* currentVersion, liveVersion, needUpdate, the stored URL and isLoading stay.
C10_FailedUpdateOnlySetsError ==
    [][\A u \in UpdateIds :
          (updates[u].pc # "failed" /\ updates'[u].pc = "failed") =>
              /\ UNCHANGED <<currentVersion, liveVersion, needUpdate, updateUrl,
                             isLoading>>
              /\ ~IsNull(error')]_vars

\* C10 witness: a failed handleUpdate after a check that found an update
C10_Witness ==
    /\ \E u \in UpdateIds : updates[u].pc = "failed"
    /\ needUpdate = TRUE
    /\ ~IsNull(liveVersion)
    /\ ~IsNull(updateUrl)
    /\ ~IsNull(error)

\* a version check is in progress: an invocation has started and not finished
InProgress == \E i \in CheckIds : checks[i].pc # "done"

\* C11: once the hook is mounted, isLoading is true if and only if a version check
\* is in progress, also when the mount check and manual checks overlap.
C11_LoadingIffInProgress ==
    mounted => (isLoading <=> InProgress)

(***************************************************************************)
(* SpecLive: the checks of the hook of part_000 when the effect runs after *)
(* the first render and every outbound request eventually resolves or      *)
(* rejects.  The steps of handleUpdate are left out: they leave checkVars  *)
(* unchanged (mounted, checks, isLoading and the rest of the state of the  *)
(* checks), so they are stuttering steps for a property of the checks.     *)
(***************************************************************************)
\* the fetch of invocation i settles
SettleFetch(i) ==
    \/ \E e \in Rejections : FetchRejects(i, e)
    \/ \E r \in Responses : FetchResolves(i, r)

\* the read of the body of invocation i settles
SettleBody(i) ==
    \/ \E e \in BodyRejections : BodyRejects(i, e)
    \/ \E data \in IosPayloads : JsonResolves(i, data)
    \/ \E html \in HookBodies : TextResolves(i, html)

Others == <<cmp, res, legacy>>

Fairness ==
    /\ WF_vars(Mount /\ UNCHANGED Others)
    /\ \A i \in 1..MaxChecks :
          /\ WF_vars(i \in CheckIds /\ SettleFetch(i) /\ UNCHANGED Others)
          /\ WF_vars(i \in CheckIds /\ SettleBody(i) /\ UNCHANGED Others)

CheckNext ==
    \/ Mount
    \/ ManualCheck
    \/ \E i \in CheckIds : SettleFetch(i)
    \/ \E i \in CheckIds : SettleBody(i)

NextLive == CheckNext /\ UNCHANGED Others

SpecLive == Init /\ [][NextLive]_vars /\ Fairness

Started(i) == i \in CheckIds
Finished(i) == i \in CheckIds /\ checks[i].pc = "done"

\* C12: isLoading is true at first, the mount effect starts a check, every check
\* that starts finishes, and the step that finishes a check sets isLoading to
\* false, whether the lookup succeeded, found nothing or failed.
C12_ChecksFinish ==
    /\ isLoading = TRUE
    /\ <>(mounted /\ Started(1))
    /\ \A i \in 1..MaxChecks : Started(i) ~> Finished(i)
    /\ [][\A i \in CheckIds : Finishes(i) => isLoading' = FALSE]_vars

\* C12 witness: a check that met a store failure has finished, none is in progress
C12_Witness ==
    /\ \E i \in CheckIds : Finished(i) /\ Val(checks[i].lookup).thrown
    /\ ~InProgress
    /\ isLoading = FALSE
    /\ ~IsNull(error)

(***************************************************************************)
(* Frame of a check whose lookup fails.                                    *)
(***************************************************************************)
\* invocation i takes this step and has not (or not yet) returned a lookup result
StepOfFailing(i) ==
    /\ i \in CheckIds'
    /\ (i \in CheckIds => checks'[i] # checks[i])
    /\ (checks'[i].pc = "done" => Val(checks'[i].lookup).thrown)

\* C13: every step of a checkForUpdate invocation whose lookup fails leaves liveVersion,
\* needUpdate and the stored update URL as they were; its last step writes only
\* isLoading (false) and error (the failure), and leaves currentVersion as its first
\* step wrote it.
C13_FailedCheckKeepsResult ==
    [][\A i \in 1..MaxChecks :
          StepOfFailing(i) =>
              /\ UNCHANGED <<liveVersion, needUpdate, updateUrl>>
              /\ (i \in CheckIds /\ Finishes(i)) =>
                    /\ UNCHANGED currentVersion
                    /\ isLoading' = FALSE
                    /\ ~IsNull(error')]_vars

\* C13 witness: a failed check has finished after one that found a version, and the
\* version state of the earlier check is still there
C13_Witness ==
    /\ Len(doneOrder) = 2
    /\ Val(checks[doneOrder[2]].lookup).thrown
    /\ ~Val(checks[doneOrder[1]].lookup).thrown
    /\ ~IsNull(liveVersion)
    /\ liveVersion = Val(checks[doneOrder[1]].lookup).version
    /\ needUpdate
    /\ ~IsNull(updateUrl)
    /\ ~IsNull(error)

(***************************************************************************)
(* handleUpdate and the calls it makes to Linking.                         *)
(***************************************************************************)
\* this step calls Linking.openURL
OpensUrl == Len(linking') = Len(linking) + 1 /\ linking'[Len(linking')].fn = "openURL"
\* this step is a call of handleUpdate
UpdateStarts == Len(updates') = Len(updates) + 1
NoUrlStored == IsNull(updateUrl) \/ Val(updateUrl) = EmptyUrl

\* C14: Linking.openURL is called only by a handleUpdate invocation that was called
\* with a URL stored and whose canOpenURL call for that URL resolved true, and the
\* URL opened is that URL; a handleUpdate called with no URL stored calls neither
\* canOpenURL nor openURL, then or later, and leaves error unchanged.
C14_OpenOnlyStoredUrl ==
    [][/\ OpensUrl =>
            \E u \in UpdateIds :
               /\ updates[u].pc = "awaitCanOpen"
               /\ updates'[u].pc = "awaitOpen"
               /\ updates'[u].canOpen = Some(TRUE)
               /\ ~IsNull(updates[u].url)
               /\ linking'[Len(linking')].url = Val(updates[u].url)
               /\ \E k \in 1..Len(linking) :
                     linking[k] = Call("canOpenURL", Val(updates[u].url))
       /\ UpdateStarts =>
            /\ updates'[Len(updates')].url = updateUrl
            /\ NoUrlStored =>
                  /\ updates'[Len(updates')].pc = "noUrl"
                  /\ UNCHANGED <<linking, error>>
       /\ \A u \in UpdateIds : updates[u].pc = "noUrl" => updates'[u] = updates[u]
      ]_vars

\* C14 witness: canOpenURL resolved true for the stored URL and openURL was called
\* with it
C14_Witness ==
    \E u \in UpdateIds :
       /\ updates[u].pc \in {"awaitOpen", "done"}
       /\ updates[u].canOpen = Some(TRUE)
       /\ Len(linking) = 2
       /\ linking[1] = Call("canOpenURL", Val(updates[u].url))
       /\ linking[2] = Call("openURL", Val(updates[u].url))

C16_NeedUpdateHasUrl ==
    needUpdate => ~NoUrlStored

\* C17: when a checkForUpdate invocation completes without error, the stored update URL
\* is the URL its lookup returned (after an Android lookup that matched no pattern: the
\* store URL of the app).
C17_StoredUrlIsReturnedUrl ==
    [][\A i \in CheckIds :
          (Finishes(i) /\ ~Val(checks'[i].lookup).thrown) =>
              updateUrl' = Val(checks'[i].lookup).url]_vars

(***************************************************************************)
(* Overlapping checks.                                                     *)
(***************************************************************************)
\* the version state is what the found / not-found branch writes for the lookup of c
Reflects(c) ==
    LET o == Val(c.lookup)
    IN  IF Truthy(o.version)
        THEN /\ liveVersion = o.version
             /\ needUpdate = compareVersions(Val(o.version), c.appVersion)
        ELSE /\ liveVersion = Null
             /\ needUpdate = FALSE

\* C18: once every started checkForUpdate invocation has finished, liveVersion and
\* needUpdate reflect the lookup result of the invocation that started last, in
\* whatever order the invocations completed.  (Invocations that do not overlap
\* complete in the order they started; only overlapping ones can complete otherwise.)
C18_LastStartedWins ==
    (/\ Len(checks) >= 2
     /\ ~InProgress
     /\ ReturnedValue(checks[Len(checks)]))
        => Reflects(checks[Len(checks)])

\* C19: when a checkForUpdate invocation completes without a lookup failure, error is
\* null at that moment, however other checkForUpdate invocations and handleUpdate
\* calls are interleaved with it.
C19_SuccessLeavesNoError ==
    [][\A i \in CheckIds :
          (Finishes(i) /\ ~Val(checks'[i].lookup).thrown) => IsNull(error')]_vars

====
